---- MODULE Spec2Model ----
(***************************************************************************)
(* NeteaseMusicClient::get_user_comments_for_songs (src/src/main.rs        *)
(* 483-642): a stream of per-song futures driven by buffer_unordered,      *)
(* each future paging through get_song_comments under a semaphore permit.  *)
(*                                                                         *)
(* All futures are polled by the one task that awaits buffered.next(), so  *)
(* the code between two await points of a future runs without any other    *)
(* future in between: one action per stretch of code between awaits.       *)
(* The literals of the source are scaled down (Cap for 50, PageSize for    *)
(* 100, MaxPages for the 100 pages of 0..10000, TickPages for the 5 pages  *)
(* of offset % 500); every use keeps the source's arithmetic.              *)
(***************************************************************************)
EXTENDS Integers, Sequences, FiniteSets, TLC

\* ------------------------------------------------------------------ bounds
Cap == 2
PageSize == 2
MaxPages == 2
TickPages == 2

\* ------------------------------------------------------- program constants
\* Semaphore::new(50)
SemaphorePermits == Cap
\* (mutant) buffer_unordered(51): one future more than there are permits
BufferLimitWide == Cap + 1
\* buffer_unordered(50)
BufferLimit == Cap
\* (0..10000).step_by(100)
MaxOffset == MaxPages * PageSize
\* (mutant) step_by one short of a page: consecutive pages overlap
StepShort == PageSize - 1
Step == PageSize
\* get_song_comments(song.song.id, 100, offset)
Limit == PageSize
\* (mutant) the closed range 0..=10000
InRangeInclusive(o) == o <= MaxOffset
\* the range 0..10000 of the for loop
InRange(o) == o < MaxOffset
\* (mutant) stop only on an empty page
ShortPageOnlyEmpty(page) == Len(page) = 0
\* (mutant) comments.len() <= 100: a full page ends the loop too
ShortPageOrFull(page) == Len(page) <= PageSize
\* comments.len() < 100
ShortPage(page) == Len(page) < PageSize
\* (mutant) offset % 100 == 0: the bar moves on every page
ProgressEveryPage == PageSize
\* offset % 500 == 0  /  song_progress.inc(5)  /  ProgressBar::new(100)
ProgressEvery == TickPages * PageSize
ProgressInc == TickPages
SongBarLen == MaxPages

\* target_uid: the user whose comments are kept; OtherUid: any other author
target_uid == 1
OtherUid == target_uid + 1

\* the input slices the run is checked on (song ids, in list order)
\* nothing in the code keeps an id from occurring twice in the slice
SongLists == { <<11, 12, 11>> }
SongIds == UNION { { l[k] : k \in DOMAIN l } : l \in SongLists }

VARIABLES
    songs,          \* songs: &[SongData], the ids in order
    phase,          \* position of get_user_comments_for_songs itself
    nextIdx,        \* next element stream::iter will yield (1-based)
    permits,        \* available permits of the semaphore
    total_progress, \* position of the overall bar
    pc,             \* position of each song's future
    offset,         \* loop variable of each future
    song_comments,  \* Vec<CommentOutput> of each future
    song_progress,  \* position of each song's bar
    bar_finished,   \* song_progress.finish_with_message called
    calls,          \* history: offsets passed to get_song_comments, in order
    got,            \* history: what each of those calls returned
    writes,         \* history: what each future passed to fs::write, in order
    files,          \* comments/song_<id>.json: content per song id (<<>>: none)
    trace,          \* history: order of the steps of each future
    exit            \* history: why each future's loop ended

vars == << songs, phase, nextIdx, permits, total_progress, pc, offset,
           song_comments, song_progress, bar_finished, calls, got, writes,
           files, trace, exit >>

N == Len(songs)
Items == 1..N

\* ------------------------------------------------------------ the server
\* struct Comment { commentId, user: CommentUser { userId, .. }, time, .. }
Comment(uid, id, time) == [userId |-> uid, commentId |-> id, time |-> time]

\* a page of n comments at offset o: odd places written by the target user
MixedPage(o, n) ==
    [k \in 1..n |-> Comment(IF k % 2 = 1 THEN target_uid ELSE OtherUid,
                            o + k, "in_range")]
OtherPage(o, n) == [k \in 1..n |-> Comment(OtherUid, o + k, "in_range")]
\* a matching comment whose time no calendar date represents
BadTimePage(o) == << Comment(target_uid, o + 1, "out_of_range") >>

\* the responses a call at offset o is checked on: full and short pages,
\* with and without comments of the target user
Pages(o) ==
    { OtherPage(o, Limit), MixedPage(o, Limit),
      OtherPage(o, 0), MixedPage(o, Limit - 1), BadTimePage(o) }

\* Result<CommentResponse>: Ok(response) with response.comments, or Err(e)
Ok(page) == [ok |-> TRUE, comments |-> page]
Err == [ok |-> FALSE, comments |-> << >>]

\* ------------------------------------------------------------- helpers
\* Local.timestamp_millis_opt(comment.time): LocalResult::Single or ::None
timestamp_millis_opt(time) == IF time = "in_range" THEN "Single" ELSE "None"

\* (mutant) the filter keeps the comments of every other user
FilterOthers(comments) == SelectSeq(comments, LAMBDA c : c.userId # target_uid)
\* .filter(|comment| comment.user.userId == target_uid)
FilterTarget(comments) == SelectSeq(comments, LAMBDA c : c.userId = target_uid)

\* .map(|comment| CommentOutput { 用户ID, 评论ID, 时间, .. })
CommentOutput(c) == [userId |-> c.userId, commentId |-> c.commentId, time |-> c.time]
MapOutput(comments) == [k \in 1..Len(comments) |-> CommentOutput(comments[k])]

\* the .unwrap() of the map closure panics on LocalResult::None
MapPanics(comments) ==
    \E k \in 1..Len(comments) : timestamp_millis_opt(comments[k].time) = "None"

\* (mutant) a gate that admits whatever the number of active holders
AdmitsAlways(limit, active) == TRUE
\* admission test of a counting gate: buffer_unordered pulls the next future
\* while fewer than its limit are in progress, the semaphore hands out a
\* permit while fewer than its permits are held
Admits(limit, active) == active < limit

InFlight == { i \in Items : pc[i] \in {"acquire", "sleep", "fetch"} }
Holders == { i \in Items : pc[i] \in {"sleep", "fetch"} }

\* ---------------------------------------------------------------- Init
Init ==
    /\ songs \in SongLists
    /\ phase = "start"
    /\ nextIdx = 1
    /\ permits = 0
    /\ total_progress = 0
    /\ pc = [i \in 1..Len(songs) |-> "idle"]
    /\ offset = [i \in 1..Len(songs) |-> 0]
    /\ song_comments = [i \in 1..Len(songs) |-> << >>]
    /\ song_progress = [i \in 1..Len(songs) |-> 0]
    /\ bar_finished = [i \in 1..Len(songs) |-> FALSE]
    /\ calls = [i \in 1..Len(songs) |-> << >>]
    /\ got = [i \in 1..Len(songs) |-> << >>]
    /\ writes = [i \in 1..Len(songs) |-> << >>]
    /\ files = [id \in SongIds |-> << >>]
    /\ trace = [i \in 1..Len(songs) |-> << >>]
    /\ exit = [i \in 1..Len(songs) |-> "none"]

\* ------------------------------------------------------------- dispatcher
\* fs::create_dir_all("comments")? succeeds: the semaphore and the overall
\* bar are built and the stream is ready to be polled
SetupOk ==
    /\ phase = "start"
    /\ phase' = "run"
    /\ permits' = SemaphorePermits
    /\ UNCHANGED << songs, nextIdx, total_progress, pc, offset, song_comments,
                    song_progress, bar_finished, calls, got, writes, files,
                    trace, exit >>

\* (mutant) the directory is created lazily, by the first song that saves:
\* the error can come while songs are being walked
SetupFailLate ==
    /\ phase \in {"start", "run"}
    /\ phase' = "err"
    /\ UNCHANGED << songs, nextIdx, permits, total_progress, pc, offset,
                    song_comments, song_progress, bar_finished, calls, got,
                    writes, files, trace, exit >>

\* fs::create_dir_all("comments")? fails: the ? returns the error
SetupFail ==
    /\ phase = "start"
    /\ phase' = "err"
    /\ UNCHANGED << songs, nextIdx, permits, total_progress, pc, offset,
                    song_comments, song_progress, bar_finished, calls, got,
                    writes, files, trace, exit >>

\* buffer_unordered pulls the next element of the stream: the map closure
\* adds the song's bar and builds the future (not yet polled)
StartWalker ==
    /\ phase = "run"
    /\ nextIdx <= N
    /\ Admits(BufferLimit, Cardinality(InFlight))
    /\ pc' = [pc EXCEPT ![nextIdx] = "acquire"]
    /\ trace' = [trace EXCEPT ![nextIdx] = Append(@, "bar")]
    /\ nextIdx' = nextIdx + 1
    /\ UNCHANGED << songs, phase, permits, total_progress, offset,
                    song_comments, song_progress, bar_finished, calls, got,
                    writes, files, exit >>

\* (mutant) the permit is not bound to a variable that lives to the end of
\* the block (let _ = ...): it goes back to the semaphore at once
AcquireDropsPermit(i) ==
    /\ pc[i] = "acquire"
    /\ Admits(SemaphorePermits, SemaphorePermits - permits)
    /\ permits' = permits
    /\ song_comments' = [song_comments EXCEPT ![i] = << >>]
    /\ offset' = [offset EXCEPT ![i] = 0]
    /\ pc' = [pc EXCEPT ![i] = "sleep"]
    /\ trace' = [trace EXCEPT ![i] = @ \o << "acquire", "release" >>]
    /\ UNCHANGED << songs, phase, nextIdx, total_progress, song_progress,
                    bar_finished, calls, got, writes, files, exit >>

\* semaphore.acquire().await returns a permit; song_comments = Vec::new();
\* the for loop takes its first offset and reaches the sleep
Acquire(i) ==
    /\ pc[i] = "acquire"
    /\ Admits(SemaphorePermits, SemaphorePermits - permits)
    /\ permits' = permits - 1
    /\ song_comments' = [song_comments EXCEPT ![i] = << >>]
    /\ offset' = [offset EXCEPT ![i] = 0]
    /\ pc' = [pc EXCEPT ![i] = "sleep"]
    /\ trace' = [trace EXCEPT ![i] = Append(@, "acquire")]
    /\ UNCHANGED << songs, phase, nextIdx, total_progress, song_progress,
                    bar_finished, calls, got, writes, files, exit >>

\* sleep(50ms) is over: get_song_comments(song.song.id, 100, offset) is called
SleepElapsed(i) ==
    /\ pc[i] = "sleep"
    /\ calls' = [calls EXCEPT ![i] = Append(@, offset[i])]
    /\ pc' = [pc EXCEPT ![i] = "fetch"]
    /\ trace' = [trace EXCEPT ![i] = Append(@, "fetch")]
    /\ UNCHANGED << songs, phase, nextIdx, permits, total_progress, offset,
                    song_comments, song_progress, bar_finished, got, writes,
                    files, exit >>

\* ---------------------------------------------------------------- walker
\* the futures buffer_unordered holds are dropped with it (a panic unwinding
\* through the function, or the function's own future being dropped): each
\* stops at the await it is suspended in, its locals (the permit, the
\* comments collected so far) are dropped, nothing after the await runs
DropFutures(p, why) ==
    [j \in Items |-> IF j \in InFlight THEN why ELSE p[j]]

\* (mutant) an error leaves the future at once (return instead of break):
\* nothing is saved, finished or counted
AfterLoopErrReturns(i, acc, pos, cause, wrote) ==
    LET save == acc # << >> /\ cause # "error"
        rest == cause # "error"
    IN  /\ song_comments' = [song_comments EXCEPT ![i] = acc]
        /\ song_progress' = [song_progress EXCEPT ![i] = pos]
        /\ writes' = [writes EXCEPT ![i] = IF save THEN Append(@, acc) ELSE @]
        /\ files' = IF save /\ wrote
                    THEN [files EXCEPT ![songs[i]] = acc] ELSE files
        /\ bar_finished' = [bar_finished EXCEPT ![i] = rest]
        /\ total_progress' = IF rest THEN total_progress + 1 ELSE total_progress
        /\ permits' = permits + 1
        /\ pc' = [pc EXCEPT ![i] = "done"]
        /\ exit' = [exit EXCEPT ![i] = cause]
        /\ trace' = [trace EXCEPT ![i] =
                        @ \o (IF save THEN << "write" >> ELSE << >>)
                          \o (IF save /\ ~ wrote THEN << "write_failed" >> ELSE << >>)
                          \o (IF rest THEN << "finish", "inc" >> ELSE << >>)
                          \o << "release" >>]
        /\ UNCHANGED << songs, phase, nextIdx, offset >>

\* (mutant) the file is written without the is_empty test
AfterLoopAlwaysSaves(i, acc, pos, cause, wrote) ==
    /\ song_comments' = [song_comments EXCEPT ![i] = acc]
    /\ song_progress' = [song_progress EXCEPT ![i] = pos]
    /\ writes' = [writes EXCEPT ![i] = Append(@, acc)]
    /\ files' = IF wrote THEN [files EXCEPT ![songs[i]] = acc] ELSE files
    /\ bar_finished' = [bar_finished EXCEPT ![i] = TRUE]
    /\ total_progress' = total_progress + 1
    /\ permits' = permits + 1
    /\ pc' = [pc EXCEPT ![i] = "done"]
    /\ exit' = [exit EXCEPT ![i] = cause]
    /\ trace' = [trace EXCEPT ![i] =
                    @ \o << "write" >>
                      \o (IF ~ wrote THEN << "write_failed" >> ELSE << >>)
                      \o << "finish", "inc", "release" >>]
    /\ UNCHANGED << songs, phase, nextIdx, offset >>

\* (mutant) the permit is dropped by hand before the song is counted
AfterLoopReleasesFirst(i, acc, pos, cause, wrote) ==
    LET save == acc # << >>
    IN  /\ song_comments' = [song_comments EXCEPT ![i] = acc]
        /\ song_progress' = [song_progress EXCEPT ![i] = pos]
        /\ writes' = [writes EXCEPT ![i] = IF save THEN Append(@, acc) ELSE @]
        /\ files' = IF save /\ wrote
                    THEN [files EXCEPT ![songs[i]] = acc] ELSE files
        /\ bar_finished' = [bar_finished EXCEPT ![i] = TRUE]
        /\ total_progress' = total_progress + 1
        /\ permits' = permits + 1
        /\ pc' = [pc EXCEPT ![i] = "done"]
        /\ exit' = [exit EXCEPT ![i] = cause]
        /\ trace' = [trace EXCEPT ![i] =
                        @ \o (IF save THEN << "write" >> ELSE << >>)
                          \o (IF save /\ ~ wrote THEN << "write_failed" >> ELSE << >>)
                          \o << "release", "finish", "inc" >>]
        /\ UNCHANGED << songs, phase, nextIdx, offset >>

\* (mutant) fs::write(...)? : a failed write ends the song's future with the
\* error, before the bar is finished and the song counted
AfterLoopWriteErrReturns(i, acc, pos, cause, wrote) ==
    LET save == acc # << >>
        rest == ~ save \/ wrote
    IN  /\ song_comments' = [song_comments EXCEPT ![i] = acc]
        /\ song_progress' = [song_progress EXCEPT ![i] = pos]
        /\ writes' = [writes EXCEPT ![i] = IF save THEN Append(@, acc) ELSE @]
        /\ files' = IF save /\ wrote
                    THEN [files EXCEPT ![songs[i]] = acc] ELSE files
        /\ bar_finished' = [bar_finished EXCEPT ![i] = rest]
        /\ total_progress' = IF rest THEN total_progress + 1 ELSE total_progress
        /\ permits' = permits + 1
        /\ pc' = [pc EXCEPT ![i] = "done"]
        /\ exit' = [exit EXCEPT ![i] = cause]
        /\ trace' = [trace EXCEPT ![i] =
                        @ \o (IF save THEN << "write" >> ELSE << >>)
                          \o (IF save /\ ~ wrote THEN << "write_failed" >> ELSE << >>)
                          \o (IF rest THEN << "finish", "inc" >> ELSE << >>)
                          \o << "release" >>]
        /\ UNCHANGED << songs, phase, nextIdx, offset >>

\* lines 612-626, reached when the loop is left for the reason `cause` with
\* `acc` collected and the song's bar at `pos`: save if there is something
\* to save (`wrote`: fs::write succeeded; a failure is printed and leaves the
\* file as it was), finish the bar, count the song, return (the permit is
\* dropped with the future's locals)
AfterLoop(i, acc, pos, cause, wrote) ==
    LET save == acc # << >>
    IN  /\ song_comments' = [song_comments EXCEPT ![i] = acc]
        /\ song_progress' = [song_progress EXCEPT ![i] = pos]
        /\ writes' = [writes EXCEPT ![i] = IF save THEN Append(@, acc) ELSE @]
        /\ files' = IF save /\ wrote
                    THEN [files EXCEPT ![songs[i]] = acc] ELSE files
        /\ bar_finished' = [bar_finished EXCEPT ![i] = TRUE]
        /\ total_progress' = total_progress + 1
        /\ permits' = permits + 1
        /\ pc' = [pc EXCEPT ![i] = "done"]
        /\ exit' = [exit EXCEPT ![i] = cause]
        /\ trace' = [trace EXCEPT ![i] =
                        @ \o (IF save THEN << "write" >> ELSE << >>)
                          \o (IF save /\ ~ wrote THEN << "write_failed" >> ELSE << >>)
                          \o << "finish", "inc", "release" >>]
        /\ UNCHANGED << songs, phase, nextIdx, offset >>

\* (mutant) the file is written at the end of every turn of the loop
ContinueSaving(i, acc, pos) ==
    /\ offset' = [offset EXCEPT ![i] = @ + Step]
    /\ song_comments' = [song_comments EXCEPT ![i] = acc]
    /\ song_progress' = [song_progress EXCEPT ![i] = pos]
    /\ pc' = [pc EXCEPT ![i] = "sleep"]
    /\ writes' = [writes EXCEPT ![i] = IF acc # << >> THEN Append(@, acc) ELSE @]
    /\ files' = IF acc # << >> THEN [files EXCEPT ![songs[i]] = acc] ELSE files
    /\ trace' = [trace EXCEPT ![i] =
                    @ \o (IF acc # << >> THEN << "write" >> ELSE << >>)]
    /\ UNCHANGED << songs, phase, nextIdx, permits, total_progress,
                    bar_finished, exit >>

\* (mutant) total_progress.inc(1) inside the loop: a song is counted per page
ContinueCounting(i, acc, pos) ==
    /\ offset' = [offset EXCEPT ![i] = @ + Step]
    /\ song_comments' = [song_comments EXCEPT ![i] = acc]
    /\ song_progress' = [song_progress EXCEPT ![i] = pos]
    /\ pc' = [pc EXCEPT ![i] = "sleep"]
    /\ total_progress' = total_progress + 1
    /\ UNCHANGED << songs, phase, nextIdx, permits, bar_finished, writes,
                    files, trace, exit >>

\* (mutant) song_comments is declared inside the loop: each turn starts from
\* an empty Vec
ContinueForgets(i, acc, pos) ==
    /\ offset' = [offset EXCEPT ![i] = @ + Step]
    /\ song_comments' = [song_comments EXCEPT ![i] = << >>]
    /\ song_progress' = [song_progress EXCEPT ![i] = pos]
    /\ pc' = [pc EXCEPT ![i] = "sleep"]
    /\ UNCHANGED << songs, phase, nextIdx, permits, total_progress,
                    bar_finished, writes, files, trace, exit >>

\* the next turn of the for loop, up to its sleep: nothing is saved, counted
\* or released while the loop goes on
Continue(i, acc, pos) ==
    /\ offset' = [offset EXCEPT ![i] = @ + Step]
    /\ song_comments' = [song_comments EXCEPT ![i] = acc]
    /\ song_progress' = [song_progress EXCEPT ![i] = pos]
    /\ pc' = [pc EXCEPT ![i] = "sleep"]
    /\ UNCHANGED << songs, phase, nextIdx, permits, total_progress,
                    bar_finished, writes, files, trace, exit >>

\* (mutant) an error is retried: the loop sleeps and calls the same offset again
FetchErrRetries(i) ==
    /\ pc[i] = "fetch"
    /\ got' = [got EXCEPT ![i] = Append(@, Err)]
    /\ pc' = [pc EXCEPT ![i] = "sleep"]
    /\ UNCHANGED << songs, phase, nextIdx, permits, total_progress, offset,
                    song_comments, song_progress, bar_finished, calls, writes,
                    files, trace, exit >>

\* get_song_comments returns Err(e): eprintln, break, then lines 612-626
FetchErr(i) ==
    /\ pc[i] = "fetch"
    /\ got' = [got EXCEPT ![i] = Append(@, Err)]
    /\ calls' = calls
    /\ \E wrote \in BOOLEAN :
          AfterLoop(i, song_comments[i], song_progress[i], "error", wrote)

\* get_song_comments returns Ok(response) with response.comments = page and a
\* matching comment's time is out of range: the unwrap at line 536 panics and
\* the panic unwinds through buffered.next() and the function
FetchPanic(i) ==
    /\ pc[i] = "fetch"
    /\ \E page \in Pages(offset[i]) :
          /\ MapPanics(FilterTarget(page))
          /\ got' = [got EXCEPT ![i] = Append(@, Ok(page))]
    /\ phase' = "panicked"
    /\ pc' = DropFutures(pc, "dropped")
    /\ song_comments' = [j \in Items |->
                            IF j \in InFlight THEN << >> ELSE song_comments[j]]
    /\ permits' = permits + Cardinality(Holders)
    /\ UNCHANGED << songs, nextIdx, total_progress, offset, song_progress,
                    bar_finished, calls, writes, files, trace, exit >>

\* get_song_comments returns Ok(response) with response.comments = page:
\* lines 531-603, then either the next turn of the loop (up to its sleep) or
\* the end of the loop and lines 612-626
FetchOk(i) ==
    /\ pc[i] = "fetch"
    /\ \E page \in Pages(offset[i]), wrote \in BOOLEAN :
          LET user_comments == MapOutput(FilterTarget(page))
              acc == song_comments[i] \o user_comments
              pos == IF offset[i] % ProgressEvery = 0
                     THEN song_progress[i] + ProgressInc
                     ELSE song_progress[i]
          IN  /\ ~ MapPanics(FilterTarget(page))
              /\ got' = [got EXCEPT ![i] = Append(@, Ok(page))]
              /\ calls' = calls
              /\ IF ShortPage(page)
                 THEN AfterLoop(i, acc, pos, "short", wrote)
                 ELSE IF InRange(offset[i] + Step)
                 THEN Continue(i, acc, pos)
                 ELSE AfterLoop(i, acc, pos, "hardstop", wrote)

\* ------------------------------------------------------ end of the run
\* (mutant) the function returns as soon as the stream has yielded every song
ReturnEarly ==
    /\ phase = "run"
    /\ nextIdx > N
    /\ phase' = "ok"
    /\ UNCHANGED << songs, nextIdx, permits, total_progress, pc, offset,
                    song_comments, song_progress, bar_finished, calls, got,
                    writes, files, trace, exit >>

\* the stream is exhausted and no future is left: buffered.next() returns
\* None, total_progress.finish_with_message, Ok(())
Return ==
    /\ phase = "run"
    /\ nextIdx > N
    /\ InFlight = {}
    /\ phase' = "ok"
    /\ UNCHANGED << songs, nextIdx, permits, total_progress, pc, offset,
                    song_comments, song_progress, bar_finished, calls, got,
                    writes, files, trace, exit >>

\* (mutant) the futures run on as detached tasks when the function's future
\* is dropped
CancelDetached ==
    /\ phase = "run"
    /\ phase' = "cancelled"
    /\ UNCHANGED << songs, nextIdx, permits, total_progress, pc, offset,
                    song_comments, song_progress, bar_finished, calls, got,
                    writes, files, trace, exit >>

\* (mutant) the permits are forgotten (SemaphorePermit::forget) instead of
\* dropped with the futures
CancelLeaksPermits ==
    /\ phase = "run"
    /\ phase' = "cancelled"
    /\ pc' = DropFutures(pc, "dropped")
    /\ song_comments' = [j \in Items |->
                            IF j \in InFlight THEN << >> ELSE song_comments[j]]
    /\ UNCHANGED << songs, nextIdx, permits, total_progress, offset,
                    song_progress, bar_finished, calls, got, writes, files,
                    trace, exit >>

\* the future of get_user_comments_for_songs is dropped while it awaits
\* buffered.next() (the process is interrupted): every future in the buffer
\* is dropped at its await
Cancel ==
    /\ phase = "run"
    /\ phase' = "cancelled"
    /\ pc' = DropFutures(pc, "dropped")
    /\ song_comments' = [j \in Items |->
                            IF j \in InFlight THEN << >> ELSE song_comments[j]]
    /\ permits' = permits + Cardinality(Holders)
    /\ UNCHANGED << songs, nextIdx, total_progress, offset, song_progress,
                    bar_finished, calls, got, writes, files, trace, exit >>

Next ==
    \/ SetupOk
    \/ SetupFail
    \/ StartWalker
    \/ \E i \in Items : Acquire(i)
    \/ \E i \in Items : SleepElapsed(i)
    \/ \E i \in Items : FetchErr(i)
    \/ \E i \in Items : FetchPanic(i)
    \/ \E i \in Items : FetchOk(i)
    \/ Return
    \/ Cancel

Spec == Init /\ [][Next]_vars

\* while let Some(result) = buffered.next().await: as long as the function's
\* future is polled, buffer_unordered pulls songs while it has room and polls
\* every future that was woken (a permit came free, the sleep elapsed, the
\* request returned); only the drop of the function's future is not owed
Progress ==
    \/ StartWalker
    \/ \E i \in Items : Acquire(i)
    \/ \E i \in Items : SleepElapsed(i)
    \/ \E i \in Items : FetchErr(i)
    \/ \E i \in Items : FetchPanic(i)
    \/ \E i \in Items : FetchOk(i)
    \/ Return

LiveSpec == Spec /\ WF_vars(Progress)

\* =================================================================== claims
Count(seq, x) == Cardinality({ k \in DOMAIN seq : seq[k] = x })
Last(seq) == seq[Len(seq)]

\* C1: in every reachable state the number of futures holding a semaphore
\* permit is at most the concurrency cap, and the semaphore's count of
\* available permits accounts for exactly those holders.
C1_HoldersWithinCap ==
    /\ Cardinality(Holders) <= Cap
    /\ phase = "run" => permits = Cap - Cardinality(Holders)
\* the cap is reached while a further song has not been started yet
C1_CapReached ==
    /\ phase = "run"
    /\ Cardinality(Holders) = Cap
    /\ nextIdx <= N

\* C2: the k-th call of get_song_comments for a song uses offset
\* PageSize * (k - 1), and a call is made only when every earlier call for the
\* same song has returned.
C2_OffsetsInOrder ==
    \A i \in Items :
        /\ \A k \in 1..Len(calls[i]) : calls[i][k] = PageSize * (k - 1)
        /\ Len(calls[i]) - Len(got[i]) \in {0, 1}
        /\ pc[i] = "fetch" => Len(calls[i]) = Len(got[i]) + 1
        /\ pc[i] = "sleep" => Len(calls[i]) = Len(got[i])
\* a song whose calls went through every page of the range
C2_AllPagesCalled ==
    \E i \in Items :
        /\ MaxPages >= 2
        /\ Len(calls[i]) = MaxPages
        /\ Len(got[i]) = MaxPages

\* C3: a call that returned Ok with fewer than PageSize comments is the last
\* call made for its song, whatever the page held.
C3_ShortPageIsLastCall ==
    \A i \in Items : \A k \in 1..Len(got[i]) :
        (got[i][k].ok /\ Len(got[i][k].comments) < PageSize)
            => /\ Len(calls[i]) = k
               /\ pc[i] \notin {"sleep", "fetch"}
\* a first page that is short but not empty, before the end of the range
C3_StoppedOnShortPage ==
    \E i \in Items :
        /\ exit[i] = "short"
        /\ Len(calls[i]) = 1
        /\ Len(got[i][1].comments) > 0
        /\ InRange(Step)

\* C4: no call is ever made with an offset at or beyond MaxOffset; the
\* largest offset ever requested is MaxOffset - PageSize.
C4_OffsetBelowMax ==
    \A i \in Items : \A k \in 1..Len(calls[i]) :
        /\ calls[i][k] < MaxOffset
        /\ calls[i][k] <= MaxOffset - PageSize
\* a server that returned only full pages: the loop ran out of its range
C4_HardStopReached ==
    \E i \in Items :
        /\ exit[i] = "hardstop"
        /\ \A k \in 1..Len(got[i]) : Len(got[i][k].comments) = PageSize
        /\ Last(calls[i]) = MaxOffset - PageSize

\* the comments of the target user in the pages a song's calls returned, in
\* the order of the calls
RECURSIVE Matches(_)
Matches(responses) ==
    IF responses = << >> THEN << >>
    ELSE Matches(SubSeq(responses, 1, Len(responses) - 1))
         \o MapOutput(FilterTarget(Last(responses).comments))

\* C5: for every song fs::write is called at most once, and only when the
\* song's loop has been left (short page, end of the range or error): no call
\* of get_song_comments follows the write.
C5_AtMostOneWrite ==
    \A i \in Items :
        /\ Len(writes[i]) <= 1
        /\ Count(trace[i], "write") = Len(writes[i])
        /\ Len(writes[i]) = 1 =>
              /\ exit[i] \in {"short", "hardstop", "error"}
              /\ pc[i] = "done"
              /\ \A k \in DOMAIN trace[i] :
                    trace[i][k] = "write" =>
                        \A m \in DOMAIN trace[i] : trace[i][m] = "fetch" => m < k
\* a song written after more than one page had been fetched
C5_WrittenAfterSeveralPages ==
    \E i \in Items :
        /\ Len(writes[i]) = 1
        /\ Len(calls[i]) >= 2
        /\ got[i][1].comments # << >>
        /\ FilterTarget(got[i][1].comments) # << >>

\* C6: whatever ended a song's loop (short page, end of the range, error on
\* the first or on a later page; with or without a write), the song's future
\* has incremented total_progress exactly once, and no future increments it
\* more than once; a song whose only call failed is not written and is
\* counted.
C6_CountedExactlyOnce ==
    /\ \A i \in Items :
          /\ Count(trace[i], "inc") <= 1
          /\ exit[i] # "none" => Count(trace[i], "inc") = 1
          /\ exit[i] = "none" => Count(trace[i], "inc") = 0
          /\ (exit[i] = "error" /\ Len(calls[i]) = 1) => writes[i] = << >>
    /\ total_progress = Cardinality({ i \in Items : Count(trace[i], "inc") = 1 })
\* the three ways out of the loop in one run, one of them an error on the
\* first page, every song counted
C6_EveryOutcomeCounted ==
    /\ \E i \in Items : exit[i] = "error" /\ Len(calls[i]) = 1
    /\ \E i \in Items : exit[i] = "error" /\ Len(calls[i]) > 1 /\ writes[i] # << >>
    /\ \E i \in Items : exit[i] \in {"short", "hardstop"} /\ writes[i] = << >>
    /\ total_progress = N

\* C7: an Err from get_song_comments is the last call for its song (no retry
\* of the offset, no later offset), and the comments collected from the pages
\* before it are passed to fs::write when there is at least one.
C7_ErrorEndsLoopKeepsPartial ==
    \A i \in Items :
        /\ \A k \in 1..Len(got[i]) :
              ~ got[i][k].ok => (Len(calls[i]) = k /\ pc[i] = "done")
        /\ exit[i] = "error" =>
              /\ ~ Last(got[i]).ok
              /\ song_comments[i] = Matches(got[i])
              /\ writes[i] = IF Matches(got[i]) # << >>
                             THEN << Matches(got[i]) >> ELSE << >>
\* an error on a later page, after a page with comments of the target user
C7_ErrorAfterMatches ==
    \E i \in Items :
        /\ exit[i] = "error"
        /\ Len(got[i]) >= 2
        /\ Matches(got[i]) # << >>
        /\ writes[i] = << Matches(got[i]) >>

\* C8: when get_user_comments_for_songs has returned Ok, every song of the
\* slice has been given to exactly one future (its bar created once, its
\* permit acquired once) and that future has run to its end: none is waiting
\* or inside its loop.
C8_ReturnAfterAllDone ==
    /\ \A i \in Items : Count(trace[i], "bar") <= 1 /\ Count(trace[i], "acquire") <= 1
    /\ phase = "ok" =>
          \A i \in Items :
              /\ pc[i] = "done"
              /\ exit[i] # "none"
              /\ Count(trace[i], "bar") = 1
              /\ Count(trace[i], "acquire") = 1
              /\ Count(trace[i], "release") = 1
\* the function has returned from a run with more songs than the cap
C8_Returned ==
    /\ phase = "ok"
    /\ N > Cap

\* C9: once the run has ended after dispatching (it returned Ok, or it was
\* ended by a panic; not by a failed setup or a cancellation), every song has
\* been counted: total_progress has reached the number of songs.
C9_EndedRunCountedAll ==
    phase \in {"ok", "panicked"} => total_progress = N

\* C10: once the function's future has been dropped, no song whose future had
\* not completed is written, what such a future had collected is gone, and
\* from then on nothing is written and no call of get_song_comments is made.
C10_NothingAfterCancel ==
    /\ [](phase = "cancelled" =>
            \A i \in Items :
                pc[i] # "done" =>
                    /\ pc[i] \in {"idle", "dropped"}
                    /\ writes[i] = << >>
                    /\ song_comments[i] = << >>)
    /\ [][phase = "cancelled" =>
            (writes' = writes /\ files' = files /\ calls' = calls)]_vars
\* cancelled while one song was already written and another, suspended in
\* its loop, had collected comments of the target user
C10_CancelledMidRun ==
    /\ phase = "cancelled"
    /\ \E i \in Items : pc[i] = "done" /\ writes[i] # << >>
    /\ \E i \in Items :
          pc[i] = "dropped" /\ Matches(got[i]) # << >> /\ writes[i] = << >>
    /\ \E i \in Items : pc[i] = "dropped" /\ Len(calls[i]) > Len(got[i])

\* the places of an event in a future's trace
Places(i, e) == { k \in DOMAIN trace[i] : trace[i][k] = e }
Before(i, a, b) == \A k \in Places(i, a), m \in Places(i, b) : k < m

\* C11: every call of get_song_comments is made by a future that holds a
\* permit (after its acquire, before its release; the semaphore counts a
\* permit out for every call in flight), so the songs that have made a call
\* are at most Cap more than the songs that have released: a song beyond the
\* cap makes its first call only after an earlier one has released.
C11_FetchUnderPermit ==
    /\ \A i \in Items :
          /\ Places(i, "fetch") # {} => Places(i, "acquire") # {}
          /\ Before(i, "acquire", "fetch")
          /\ Before(i, "fetch", "release")
    /\ Cardinality({ i \in Items : pc[i] = "fetch" }) <= SemaphorePermits - permits
    /\ Cardinality({ i \in Items : calls[i] # << >> })
          <= Cap + Cardinality({ i \in Items : Places(i, "release") # {} })
\* a song took a full page without and then a short page with comments of
\* the target user (two calls), released, and a song beyond the cap has then
\* made its first call
C11_LaterSongAfterRelease ==
    \E i, j \in Items :
        /\ j > Cap
        /\ calls[j] # << >>
        /\ pc[i] = "done"
        /\ got[i] = << Ok(OtherPage(0, Limit)), Ok(MixedPage(Step, Limit - 1)) >>
        /\ Len(calls[i]) = 2
        /\ Len(song_comments[i]) = Len(FilterTarget(MixedPage(Step, Limit - 1)))
        /\ Cardinality({ l \in Items : calls[l] # << >> }) = Cap + 1

\* every comment a song's successful calls returned, in the order of the calls
RECURSIVE Returned(_)
Returned(responses) ==
    IF responses = << >> THEN << >>
    ELSE Returned(SubSeq(responses, 1, Len(responses) - 1))
         \o Last(responses).comments
\* the ids of the comments of `comments` written by user `uid`, in order
IdsBy(comments, uid) ==
    LET RECURSIVE Ids(_)
        Ids(cs) == IF cs = << >> THEN << >>
                   ELSE (IF cs[1].userId = uid THEN << cs[1].commentId >> ELSE << >>)
                        \o Ids(Tail(cs))
    IN  Ids(comments)

\* C12: what a future has collected is a function of the pages its calls
\* returned, whatever the interleaving with the other futures: the comments
\* of the target user among them, each once, in the order returned, and no
\* comment of another user.
C12_ResultIsFilteredPages ==
    \A i \in Items :
        pc[i] \in {"sleep", "fetch", "done"} =>
            /\ \A k \in DOMAIN song_comments[i] :
                  song_comments[i][k].userId = target_uid
            /\ [k \in DOMAIN song_comments[i] |-> song_comments[i][k].commentId]
                  = IdsBy(Returned(got[i]), target_uid)
\* two futures of one run were given the same pages, two of which contributed
\* comments and held comments of other users too
C12_SamePagesSameResult ==
    \E i, j \in Items :
        /\ i # j
        /\ pc[i] = "done" /\ pc[j] = "done"
        /\ got[i] = got[j]
        /\ song_comments[i] = song_comments[j]
        /\ Len(got[i]) = 2
        /\ FilterTarget(got[i][1].comments) # << >>
        /\ FilterTarget(got[i][2].comments) # << >>
        /\ Len(Returned(got[i])) > Len(song_comments[i])

\* C13: when a future's loop has been left, by a short page, the end of the
\* range or an error, fs::write has been called for its song exactly when what
\* it collected is not empty, and with what it collected; a song none of whose
\* pages held a comment of the target user is never written.
C13_WriteIffNonEmpty ==
    \A i \in Items :
        /\ exit[i] # "none" =>
              writes[i] = IF song_comments[i] # << >>
                          THEN << song_comments[i] >> ELSE << >>
        /\ IdsBy(Returned(got[i]), target_uid) = << >> => writes[i] = << >>
\* one loop left at the end of the range with nothing collected and nothing
\* written, another left by a short page and written
C13_BothOutcomes ==
    /\ \E i \in Items :
          exit[i] = "hardstop" /\ song_comments[i] = << >> /\ writes[i] = << >>
    /\ \E i \in Items :
          exit[i] = "short" /\ song_comments[i] # << >> /\ Len(writes[i]) = 1

\* C14 as claimed: a future's permit is released before it increments
\* total_progress.
C14_ReleaseBeforeCount ==
    \A i \in Items : Before(i, "release", "inc")
\* C14 as amended: the last steps of a future are, in this order, the write
\* (when there is one), the finish of the song's bar, the increment of
\* total_progress and then the release of the permit: the permit is still
\* held when the song is counted.
C14_WriteCountRelease ==
    \A i \in Items :
        /\ Before(i, "fetch", "write")
        /\ Before(i, "write", "finish")
        /\ Before(i, "finish", "inc")
        /\ Before(i, "inc", "release")
        /\ Places(i, "inc") # {} =>
              (Places(i, "release") # {} /\ Places(i, "finish") # {})
\* a future that wrote, was counted and released
C14_WroteCountedReleased ==
    \E i \in Items :
        /\ Places(i, "write") # {}
        /\ Places(i, "inc") # {}
        /\ Places(i, "release") # {}

\* C15: total_progress is 0 until the first future completes, every step
\* leaves it unchanged or adds exactly 1, it never exceeds the number of
\* songs, and it always equals the number of futures that have run to their
\* end.
C15_OverallCounter ==
    /\ [](/\ phase = "start" => total_progress = 0
          /\ total_progress <= N
          /\ total_progress = Cardinality({ i \in Items : pc[i] = "done" }))
    /\ [][total_progress' \in {total_progress, total_progress + 1}]_vars
\* the counter has reached the number of songs before the function returns
C15_CounterFull ==
    /\ phase = "run"
    /\ total_progress = N
    /\ N > 1

\* the pages of a song that lines 531-603 have processed: the calls that
\* returned Ok and did not end in the panic of the map closure
Processed(i) ==
    Cardinality({ k \in DOMAIN got[i] :
                    got[i][k].ok /\ ~ MapPanics(FilterTarget(got[i][k].comments)) })

C17_BarAtMostPages ==
    \A i \in Items :
        /\ song_progress[i] <= Processed(i)
        /\ song_progress[i] <= SongBarLen

\* C18: when creating the comments directory fails, the function has returned
\* the error with no song's future built, no permit taken, no call of
\* get_song_comments made, nothing written and no bar moved.
C18_SetupFailureBeforeDispatch ==
    phase = "err" =>
        /\ nextIdx = 1
        /\ Holders = {}
        /\ total_progress = 0
        /\ \A i \in Items :
              /\ pc[i] = "idle"
              /\ trace[i] = << >>
              /\ calls[i] = << >>
              /\ got[i] = << >>
              /\ writes[i] = << >>
              /\ song_progress[i] = 0
              /\ ~ bar_finished[i]
\* the setup has failed on a list of several songs
C18_SetupFailed ==
    /\ phase = "err"
    /\ N > 1

\* the song's fs::write returned an error
WriteFailed(t) == Count(t, "write_failed") > 0

\* C19: a song whose fs::write failed has made that one write and no other,
\* its bar is finished, it is counted once and its permit released once, and
\* what it collected is not in the file (unless another entry of the same
\* song saved it); the failure changes nothing of the run or of the other
\* songs, and a run that returned Ok has every song done, those with a failed
\* write included.
C19_WriteFailureNotFatal ==
    /\ [](\A i \in Items :
            WriteFailed(trace[i]) =>
                /\ Count(trace[i], "write") = 1
                /\ Len(writes[i]) = 1
                /\ pc[i] = "done"
                /\ bar_finished[i]
                /\ Count(trace[i], "inc") = 1
                /\ Count(trace[i], "release") = 1
                /\ files[songs[i]] # writes[i][1] \/ \E j \in Items :
                        j # i /\ songs[j] = songs[i] /\ writes[j] # << >>
                               /\ ~ WriteFailed(trace[j]))
    /\ [](phase = "ok" => \A i \in Items : pc[i] = "done")
    /\ [][\A i \in Items :
            WriteFailed(trace'[i]) /\ ~ WriteFailed(trace[i]) =>
                /\ phase' = phase
                /\ phase = "run"
                /\ \A j \in Items \ {i} : pc'[j] = pc[j]]_vars
\* the run returned Ok with one song's write failed and another song, which
\* ended after it, saved
C19_OkAfterFailedWrite ==
    /\ phase = "ok"
    /\ \E i, j \in Items :
          /\ WriteFailed(trace[i])
          /\ i < j
          /\ writes[j] # << >>
          /\ ~ WriteFailed(trace[j])
          /\ files[songs[j]] = writes[j][1]

\* C20: no failure of one song ends the run: the run is never ended by a
\* panic, no song's future is dropped unfinished except by a cancellation of
\* the whole function, and every other song is still walked to its end.
C20_FailureIsolated ==
    /\ phase # "panicked"
    /\ \A i \in Items : pc[i] = "dropped" => phase = "cancelled"

\* the places of the input slices
SongSlots == UNION { DOMAIN l : l \in SongLists }

\* C21: no permit is leaked: once the semaphore exists, the permits available
\* are all but those of the futures suspended between acquire and the end of
\* their block; a future that ended, on whichever path (short page, end of
\* the range, failed call, failed write), took one permit and gave it back
\* once; when the run has ended (returned, panicked or cancelled) every permit
\* is back; and a future waiting at acquire does not wait forever.
C21_NoPermitLeaked ==
    /\ [](phase \notin {"start", "err"} =>
            permits = SemaphorePermits - Cardinality(Holders))
    /\ [](phase \in {"ok", "panicked", "cancelled"} =>
            /\ Holders = {}
            /\ permits = SemaphorePermits)
    /\ [](\A i \in Items :
            pc[i] = "done" =>
                /\ Count(trace[i], "acquire") = 1
                /\ Count(trace[i], "release") = 1
                /\ Last(trace[i]) = "release")
    /\ \A i \in SongSlots :
            (i \in Items /\ pc[i] = "acquire")
                ~> (i \in Items /\ pc[i] # "acquire")
\* the run was cancelled while one future held a permit, after another had
\* ended on a failed call and a third on a failed write: every permit is back
C21_AllPermitsBack ==
    /\ phase = "cancelled"
    /\ permits = SemaphorePermits
    /\ \E i, j, k \in Items :
          /\ pc[i] = "dropped" /\ Count(trace[i], "acquire") = 1
          /\ pc[j] = "done" /\ exit[j] = "error"
          /\ pc[k] = "done" /\ WriteFailed(trace[k])

\* C22: no two futures of one run pass the same path to fs::write, so that no
\* song's saved result is overwritten by what another future saves.
C22_OwnOutputUnit ==
    \A i, j \in Items :
        (i # j /\ writes[i] # << >> /\ writes[j] # << >>) =>
            songs[i] # songs[j]

Min(a, b) == IF a < b THEN a ELSE b

\* the numbers of records a server is taken to hold for a song: from none to
\* more than the loop's range reaches
StoreSizes == 0..(MaxOffset + PageSize)

\* the calls made for song i so far were answered by a faithful server that
\* holds n records for the song, record r carrying commentId r: every call
\* returned Ok, and the call at offset o returned the records
\* o + 1 .. min(o + PageSize, n), in order (FaithfulRecords: which records,
\* whatever n; FaithfulLengths: how many, for this n)
FaithfulRecords(i) ==
    /\ Len(got[i]) > 0
    /\ \A k \in 1..Len(got[i]) :
          /\ got[i][k].ok
          /\ \A m \in 1..Len(got[i][k].comments) :
                /\ got[i][k].comments[m].commentId = calls[i][k] + m
                /\ timestamp_millis_opt(got[i][k].comments[m].time) = "Single"
FaithfulLengths(i, n) ==
    \A k \in 1..Len(got[i]) :
        Len(got[i][k].comments)
            = (IF n > calls[i][k] THEN Min(PageSize, n - calls[i][k]) ELSE 0)
Faithful(i, n) == FaithfulRecords(i) /\ FaithfulLengths(i, n)

\* C23: against a faithful, error-free server holding n records for a song,
\* the song's future makes min(n \div PageSize + 1, MaxPages) calls: never
\* more, and exactly that many once it has ended; when n is a positive
\* multiple of PageSize below MaxOffset the last of them returns an empty
\* page.
C23_CallsForStoreSize ==
    \A i \in Items :
      FaithfulRecords(i) =>
        \A n \in StoreSizes :
          FaithfulLengths(i, n) =>
            /\ Len(calls[i]) <= Min(n \div PageSize + 1, MaxPages)
            /\ pc[i] = "done" =>
                  /\ Len(calls[i]) = Min(n \div PageSize + 1, MaxPages)
                  /\ (n > 0 /\ n % PageSize = 0 /\ n < MaxOffset) =>
                        Last(got[i]).comments = << >>
\* one song's store holds exactly one full page (a further call returned the
\* empty page), another's holds more than the range reaches (MaxPages calls)
C23_ExtraCallAndHardStop ==
    /\ \E i \in Items :
          /\ pc[i] = "done" /\ Faithful(i, PageSize)
          /\ Len(calls[i]) = 2 /\ Last(got[i]).comments = << >>
          /\ PageSize < MaxOffset
    /\ \E j \in Items :
          /\ pc[j] = "done" /\ Faithful(j, MaxOffset + PageSize)
          /\ Len(calls[j]) = MaxPages

\* C24: against a faithful, error-free server holding n records for a song,
\* the pages the song's future was given are the records 1 .. min(n,
\* MaxOffset), each once and in order, and what it has collected when it ends
\* is every one of them written by target_uid, once and in that order.
C24_EveryMatchOnce ==
    \A i \in Items :
      (pc[i] = "done" /\ FaithfulRecords(i)) =>
        \A n \in StoreSizes :
          FaithfulLengths(i, n) =>
            LET seen == Returned(got[i])
                reach == Min(n, MaxOffset)
            IN  /\ Len(seen) = reach
                /\ \A r \in 1..reach : seen[r].commentId = r
                /\ IdsBy(song_comments[i], target_uid)
                      = IdsBy(seen, target_uid)
                /\ Len(song_comments[i]) = Len(IdsBy(seen, target_uid))
                /\ writes[i] # << >> => writes[i][1] = song_comments[i]
\* a store that ends below the range, in its second page, with a comment of
\* target_uid in each page and a comment of another user between them
C24_MatchesAcrossPages ==
    \E i \in Items, n \in StoreSizes :
        /\ Faithful(i, n) /\ pc[i] = "done"
        /\ n > PageSize /\ n < MaxOffset
        /\ Len(song_comments[i]) >= 2
        /\ Len(song_comments[i]) < n
        /\ song_comments[i][1].commentId <= PageSize
        /\ Last(song_comments[i]).commentId > PageSize

\* the futures that were built and have not been given their permit yet
AtAcquire == { i \in Items : pc[i] = "acquire" }

\* C25: the futures started and not yet ended are never more than Cap, so a
\* future that reaches semaphore.acquire never has to wait: there is a permit
\* free for every future that has not been given one yet; a further song is
\* pulled from the stream only while fewer than Cap futures are in progress,
\* and a song not yet pulled has no bar and has not tried to acquire.
C25_NoWaitAtAcquire ==
    /\ [](Cardinality(InFlight) <= Cap)
    /\ [](phase = "run" => Cardinality(AtAcquire) <= permits)
    /\ [](\A i \in Items :
            i >= nextIdx => /\ pc[i] = "idle"
                            /\ trace[i] = << >>
                            /\ ~ bar_finished[i])
    /\ [][nextIdx' # nextIdx =>
            /\ nextIdx' = nextIdx + 1
            /\ Cardinality(InFlight) < Cap
            /\ nextIdx > Cap =>
                  Cardinality({ i \in Items : pc[i] = "done" }) >= nextIdx - Cap]_vars
\* the song after the first Cap ones has just been started, an earlier one
\* having ended: the buffer is full again and a permit is free for it
C25_StartedAfterAnEnd ==
    /\ phase = "run"
    /\ N > Cap
    /\ pc[Cap + 1] = "acquire"
    /\ Cardinality(InFlight) = Cap
    /\ Cardinality({ i \in Items : pc[i] = "done" }) = 1
    /\ permits >= 1

====
